---- MODULE Spec2Model ----
(***************************************************************************)
(* Model of cloud_ops_provisioning.py: the Provisioner (entry parsing,     *)
(* validation, persisted state, bounded worker pool, completion loop) and  *)
(* the ProvisioningTask (retry/backoff loop, output classification).       *)
(*                                                                         *)
(* Text is a sequence of one-character strings, so that the regular        *)
(* expressions and str() of the source are computed, not assumed.          *)
(***************************************************************************)
EXTENDS Integers, Sequences, FiniteSets, TLC

(* ------------------------------ bounds -------------------------------- *)
\* rows of the input file
MaxEntries == 2
\* largest --max-retries value explored
MaxRetriesBound == 2
\* largest --max-workers value explored
MaxWorkersBound == 2
\* tokens of captured output explored
MaxOutputLen == 5

(* ------------------------------- text --------------------------------- *)
NL == "\n"
Letters ==
  {"a", "b", "c", "e", "i", "j", "k", "l", "n", "o", "p", "r", "s", "t", "v", "z"}
Digits == {"1", "2"}
\* Python's \w on str patterns: alphanumerics and the underscore
IsWordChar(c) == c \in Letters \cup Digits \cup {"_"}
IsDigit(c) == c \in Digits
Whitespace == {" ", NL}

RECURSIVE SplitOn(_, _)
\* s.split(sep) for a one-character separator
SplitOn(s, sep) ==
  IF \A k \in 1..Len(s) : s[k] # sep THEN <<s>>
  ELSE LET k == CHOOSE k \in 1..Len(s) :
                  s[k] = sep /\ \A m \in 1..(k - 1) : s[m] # sep
       IN <<SubSeq(s, 1, k - 1)>> \o SplitOn(SubSeq(s, k + 1, Len(s)), sep)

RECURSIVE Strip(_)
\* str.strip()
Strip(s) ==
  IF s = <<>> THEN s
  ELSE IF s[1] \in Whitespace THEN Strip(Tail(s))
  ELSE IF s[Len(s)] \in Whitespace THEN Strip(SubSeq(s, 1, Len(s) - 1))
  ELSE s

\* The strings a pattern ending in "$" is tried on: "$" matches at the end
\* and also just before one trailing newline.
DollarBodies(s) ==
  {s} \cup (IF s # <<>> /\ s[Len(s)] = NL THEN {SubSeq(s, 1, Len(s) - 1)} ELSE {})

Projects == <<"p", "r", "o", "j", "e", "c", "t", "s">>
Zones == <<"z", "o", "n", "e", "s">>
Instances == <<"i", "n", "s", "t", "a", "n", "c", "e", "s">>

\* one [\w-]+ group
IsNameGroup(g) == g # <<>> /\ \A k \in 1..Len(g) : IsWordChar(g[k]) \/ g[k] = "-"

(* --------------------------- InstanceInfo ----------------------------- *)
InstanceInfo(project, zone, instance) ==
  [project |-> project, zone |-> zone, instance |-> instance]

\* InstanceInfo.__str__
InstanceStr(info) ==
  Projects \o <<"/">> \o info.project \o <<"/">> \o Zones \o <<"/">> \o info.zone
    \o <<"/">> \o Instances \o <<"/">> \o info.instance

\* the re.match of _parse_and_validate_instance_full_name, on the body b
FullNameBodyMatches(b) ==
  LET parts == SplitOn(b, "/")
  IN /\ Len(parts) = 6
     /\ parts[1] = Projects /\ parts[3] = Zones /\ parts[5] = Instances
     /\ IsNameGroup(parts[2]) /\ IsNameGroup(parts[4]) /\ IsNameGroup(parts[6])

FullNameMatches(s) == \E b \in DollarBodies(s) : FullNameBodyMatches(b)

\* _parse_and_validate_instance_full_name: [ok, value | error]
ParseAndValidateInstanceFullName(s) ==
  IF ~FullNameMatches(s)
  THEN [ok |-> FALSE, error |-> <<"InstanceFullNameInvalidError", s>>]
  ELSE LET b == CHOOSE b \in DollarBodies(s) : FullNameBodyMatches(b)
           parts == SplitOn(b, "/")
       IN [ok |-> TRUE, value |-> InstanceInfo(parts[2], parts[4], parts[6])]

(* ----------------------------- agents --------------------------------- *)
LOGGING == "logging"
METRICS == "metrics"
OPS_AGENT == "ops-agent"
\* keys of _AGENT_DETAILS
AgentTypes == {LOGGING, METRICS, OPS_AGENT}
\* _AGENT_DETAILS[t].name
AgentName(t) ==
  CASE t = LOGGING -> "google-fluentd"
    [] t = METRICS -> "stackdriver-agent"
    [] t = OPS_AGENT -> "google-cloud-ops-agent"

PENDING == "PENDING"
RUNNING == "RUNNING"
SUCCESS == "SUCCESS"
FAILURE == "FAILURE"
SKIPPED == "SKIPPED"
ProvisioningStatus == {PENDING, RUNNING, SUCCESS, FAILURE, SKIPPED}

HasVersion(rule) == "version" \in DOMAIN rule
HasType(rule) == "type" \in DOMAIN rule

\* ProvisioningTask.agent_types
TypesOf(rules) == [k \in 1..Len(rules) |-> rules[k].type]

\* collections.Counter(...)[x]
Count(seq, x) == Cardinality({k \in 1..Len(seq) : seq[k] = x})

\* first occurrences, in order (the key order of a Counter or a dict)
Distinct(seq) ==
  LET keep == {k \in 1..Len(seq) : \A m \in 1..(k - 1) : seq[m] # seq[k]}
      F[n \in 0..Len(seq)] ==
        IF n = 0 THEN <<>>
        ELSE IF n \in keep THEN Append(F[n - 1], seq[n]) ELSE F[n - 1]
  IN F[Len(seq)]

(* --------------------------- validation ------------------------------- *)
\* ord(c) for the characters of the model
CharCode(c) ==
  CASE c = NL -> 10 [] c = " " -> 32 [] c = "*" -> 42 [] c = "-" -> 45
    [] c = "." -> 46 [] c = "/" -> 47 [] c = "1" -> 49 [] c = "2" -> 50
    [] c = "_" -> 95 [] c = "a" -> 97 [] c = "b" -> 98 [] c = "c" -> 99
    [] c = "e" -> 101 [] c = "i" -> 105 [] c = "j" -> 106 [] c = "k" -> 107 [] c = "l" -> 108
    [] c = "n" -> 110 [] c = "o" -> 111 [] c = "p" -> 112 [] c = "r" -> 114
    [] c = "s" -> 115 [] c = "t" -> 116 [] c = "v" -> 118 [] c = "z" -> 122

RECURSIVE StrLess(_, _)
\* Python's < on str
StrLess(a, b) ==
  IF a = <<>> THEN b # <<>>
  ELSE IF b = <<>> THEN FALSE
  ELSE IF a[1] # b[1] THEN CharCode(a[1]) < CharCode(b[1])
  ELSE StrLess(Tail(a), Tail(b))

RECURSIVE SortedStrs(_)
\* sorted(S) for a set of str
SortedStrs(S) ==
  IF S = {} THEN <<>>
  ELSE LET m == CHOOSE m \in S : \A x \in S \ {m} : StrLess(m, x)
       IN <<m>> \o SortedStrs(S \ {m})

\* a threshold one too high: two records of an instance go unnoticed
MoreThanTwoRecords(v) == v > 2

\* "if v > 1" of _validate_instances_duplication
MoreThanOneRecord(v) == v > 1

\* _validate_instances_duplication: the error it raises, or none
ValidateInstancesDuplication(instances) ==
  LET dup == {instances[k] : k \in {k \in 1..Len(instances) :
                                      MoreThanOneRecord(Count(instances, instances[k]))}}
      duplicate_instances == SortedStrs(dup)
  IN IF duplicate_instances # <<>>
     THEN [ok |-> FALSE,
           error |-> <<"InstanceEntriesDuplicateError", duplicate_instances>>]
     ELSE [ok |-> TRUE]

\* agent type strings of the model, in Python's sort order
TypeOrder == <<"invalid-type", LOGGING, METRICS, OPS_AGENT>>

\* every type string taken for an agent type
AnyTypeKnown(agent_type) == TRUE

\* "agent_type in _AGENT_DETAILS"
KnownAgentType(agent_type) == agent_type \in AgentTypes

\* the conflict looked for at the head of the list only
OpsAgentFirstWithOthers(types) == Len(types) > 1 /\ types[1] = OPS_AGENT

\* "agent_types[AgentType.OPS_AGENT] > 0 and sum(agent_types.values()) > 1"
OpsAgentWithOthers(types) == Count(types, OPS_AGENT) > 0 /\ Len(types) > 1

\* _validate_agent_types
ValidateAgentTypes(agent_rules) ==
  LET types == TypesOf(agent_rules)
      keys == Distinct(types)
      invalid == SelectSeq(keys, LAMBDA t : ~KnownAgentType(t))
      duplicate_types == SelectSeq(TypeOrder, LAMBDA t : Count(types, t) > 1)
  IN [k \in 1..Len(invalid) |-> <<"InvalidAgentType", invalid[k]>>]
       \o [k \in 1..Len(duplicate_types) |-> <<"AtMostOne", duplicate_types[k]>>]
       \o (IF OpsAgentWithOthers(types)
           THEN << <<"OpsAgentConflict">> >> ELSE <<>>)

IsDigits(g) == g # <<>> /\ \A k \in 1..Len(g) : IsDigit(g[k])

\* _PINNED_MAJOR_VERSION_RE.search
PinnedMajorVersionRe(v) ==
  \E b \in DollarBodies(v) :
    LET parts == SplitOn(b, ".")
    IN Len(parts) = 3 /\ IsDigits(parts[1])
         /\ parts[2] = <<"*">> /\ parts[3] = <<"*">>

\* _PINNED_VERSION_RE.search
PinnedVersionRe(v) ==
  \E b \in DollarBodies(v) :
    LET parts == SplitOn(b, ".")
    IN Len(parts) = 3 /\ IsDigits(parts[1]) /\ IsDigits(parts[2])
         /\ IsDigits(parts[3])

\* _AGENT_VERSION_LATEST
AgentVersionLatest == <<"l", "a", "t", "e", "s", "t">>

\* _validate_agent_version
ValidateAgentVersion(version) ==
  IF version = AgentVersionLatest THEN <<>>
  ELSE IF PinnedMajorVersionRe(version) \/ PinnedVersionRe(version) THEN <<>>
  ELSE << <<"VersionNotAllowed", version>> >>

\* an empty list let through
NeverNoRules(decoded_rules) == FALSE

\* "if not decoded_rules"
NoRules(decoded_rules) == decoded_rules = <<>>

\* _extract_agent_rules.  A rules string is [decodes, value]: whether
\* json.loads accepts it and the list it decodes to.
ExtractAgentRules(instance, agent_rules) ==
  IF ~agent_rules.decodes
  THEN [ok |-> FALSE, error |-> <<"AgentRuleParseError", "invalid", instance>>]
  ELSE LET decoded_rules == agent_rules.value
           type_errors == SelectSeq(decoded_rules, LAMBDA r : ~HasType(r))
       IN IF NoRules(decoded_rules)
          THEN [ok |-> FALSE,
                error |-> <<"AgentRuleParseError", "empty", instance>>]
          ELSE IF type_errors # <<>>
          THEN [ok |-> FALSE,
                error |-> <<"AgentRuleParseError", "missing type", instance,
                            Len(type_errors)>>]
          ELSE [ok |-> TRUE, value |-> decoded_rules]

RECURSIVE VersionErrors(_)
\* the loop over the rules that carry a version
VersionErrors(rules) ==
  IF rules = <<>> THEN <<>>
  ELSE (IF HasVersion(Head(rules)) THEN ValidateAgentVersion(Head(rules).version)
        ELSE <<>>) \o VersionErrors(Tail(rules))

\* _parse_and_validate_agent_rules
ParseAndValidateAgentRules(instance, agent_rules) ==
  LET extracted == ExtractAgentRules(instance, agent_rules)
  IN IF ~extracted.ok
     THEN [ok |-> FALSE, error |-> <<"AgentRuleInvalidError", extracted.error>>]
     ELSE LET errors == ValidateAgentTypes(extracted.value)
                          \o VersionErrors(extracted.value)
          IN IF errors # <<>>
             THEN [ok |-> FALSE,
                   error |-> <<"AgentRuleInvalidError", instance, errors>>]
             ELSE [ok |-> TRUE, value |-> extracted.value]

\* one try block for both validations: the first error hides the second
EntryErrorsFirstOnly(entry) ==
  LET name == ParseAndValidateInstanceFullName(entry[1])
      rules == ParseAndValidateAgentRules(entry[1], entry[2])
  IN IF ~name.ok THEN <<name.error>>
     ELSE IF ~rules.ok THEN <<rules.error>> ELSE <<>>

\* what one entry adds to error_msgs
EntryErrors(entry) ==
  LET name == ParseAndValidateInstanceFullName(entry[1])
      rules == ParseAndValidateAgentRules(entry[1], entry[2])
  IN (IF name.ok THEN <<>> ELSE <<name.error>>)
       \o (IF rules.ok THEN <<>> ELSE <<rules.error>>)

RECURSIVE EntriesErrors(_)
EntriesErrors(entries) ==
  IF entries = <<>> THEN <<>>
  ELSE EntryErrors(Head(entries)) \o EntriesErrors(Tail(entries))

RECURSIVE ParsedEntries(_)
\* the entries without an error, as (InstanceInfo, rules) pairs
ParsedEntries(entries) ==
  IF entries = <<>> THEN <<>>
  ELSE LET e == Head(entries)
       IN (IF EntryErrors(e) = <<>>
           THEN << <<ParseAndValidateInstanceFullName(e[1]).value,
                     ParseAndValidateAgentRules(e[1], e[2]).value>> >>
           ELSE <<>>) \o ParsedEntries(Tail(entries))

\* validation that goes on with the entries that have no error
ParseAndValidateEntriesLenient(entries) ==
  [ok |-> TRUE, value |-> ParsedEntries(entries)]

\* _parse_and_validate_entries: EntriesValidationError or the parsed entries
ParseAndValidateEntries(entries) ==
  LET dup == ValidateInstancesDuplication([k \in 1..Len(entries) |-> entries[k][1]])
      error_msgs == EntriesErrors(entries)
                      \o (IF dup.ok THEN <<>> ELSE <<dup.error>>)
  IN IF error_msgs # <<>>
     THEN [ok |-> FALSE, error |-> error_msgs]
     ELSE [ok |-> TRUE, value |-> ParsedEntries(entries)]

(* ------------------------------ inputs -------------------------------- *)
HostA == InstanceStr(InstanceInfo(<<"p">>, <<"z">>, <<"a">>))
HostB == InstanceStr(InstanceInfo(<<"p">>, <<"z">>, <<"b">>))
\* no "projects/.../zones/.../instances/..." shape
BadHost == <<"a", "/", "b">>

RLogging == [decodes |-> TRUE, value |-> << [type |-> LOGGING] >>]
RBoth == [decodes |-> TRUE, value |-> << [type |-> LOGGING], [type |-> METRICS] >>]
ROps == [decodes |-> TRUE, value |-> << [type |-> OPS_AGENT] >>]
RInvalidType == [decodes |-> TRUE, value |-> << [type |-> "invalid-type"] >>]

\* records of the input file as csv.reader yields them
RowSamples ==
  { <<HostA, RLogging>>, <<HostB, RBoth>>, <<<<" ">> \o HostA, ROps>>,
    <<HostB, RInvalidType>>, <<BadHost, RLogging>>, <<>>, <<HostA>> }

InputFiles == UNION {[1..n -> RowSamples] : n \in 0..MaxEntries}

\* entries of a persisted state file; the last one lacks "status"
StateEntrySamples ==
  { [status |-> SUCCESS, last_updated |-> 0],
    [status |-> FAILURE, last_updated |-> 0],
    [last_updated |-> 0] }

\* JSON objects of a state file: any entry for HostA, and HostB recorded
\* SUCCESS or absent
StateMaps ==
  { m \in UNION {[D -> StateEntrySamples] : D \in SUBSET {HostA, HostB}} :
      HostB \in DOMAIN m => m[HostB] = [status |-> SUCCESS, last_updated |-> 0] }

\* the file is absent, is not JSON, or holds a JSON object
StateFiles ==
  { [kind |-> "missing"], [kind |-> "garbage"] }
    \cup { [kind |-> "json", value |-> m] : m \in StateMaps }

\* --provider and --dry-run as main() passes them on: one pair for each
\* provider class
CliProviderArgs ==
  { <<"local-gcloud", FALSE>>, <<"local-gcloud", TRUE>>, <<"paramiko", FALSE>> }

\* a command's captured output, as tokens: a newline, an agent's
\* "<name> runs successfully." text, or other text without a newline
RunsSuccessfully(t) == <<AgentName(t), " runs successfully.">>
OutputTokens == {<<NL>>, <<"other text">>} \cup {RunsSuccessfully(t) : t \in AgentTypes}
Outputs == UNION {[1..n -> OutputTokens] : n \in 0..MaxOutputLen}

ExitCodes == {0, 1}

(* ------------------------------- state -------------------------------- *)
VARIABLES
  cfg,         \* Provisioner: force, max_workers, max_retries, provider_instance
  vms_file,    \* the input file's records
  state_file,  \* provisioning_state.json: its content at start, then each write
  state,       \* Provisioner.state
  entries,     \* run(): entries, as read from the file
  tasks,       \* Provisioner.tasks: the fields of each ProvisioningTask
  frames,      \* the call of task.run() of each task: pc, i, exits, exception
  main,        \* the thread in Provisioner.run(), or a direct caller of a task
  clock        \* datetime.now(), as a counter

vars == <<cfg, vms_file, state_file, state, entries, tasks, frames, main, clock>>

\* the state file as the run found it, as it is now, and the _write_state calls
PriorFile == state_file[1]
CurrentFile == state_file[Len(state_file)]
Writes == Len(state_file) - 1

\* start_process(self, instance_info, command_str, log_file) of the three
\* built-in providers takes three arguments
ProviderParams(provider) ==
  CASE provider = "_LocalGcloudProvider" -> 3
    [] provider = "_MockProvider" -> 3
    [] provider = "_ParamikoProvider" -> 3

\* self.provider.start_process(ssh_command, instance_file) passes two
StartProcessArgs == 2

BuiltinProviders == {"_LocalGcloudProvider", "_MockProvider", "_ParamikoProvider"}
\* provider=None: ProvisioningTask calls _popen itself
NoProvider == "None"

\* Provisioner.__init__: the provider instance
ProviderInstance(provider, dry_run) ==
  IF provider = "paramiko" THEN "_ParamikoProvider"
  ELSE IF dry_run THEN "_MockProvider"
  ELSE "_LocalGcloudProvider"

\* Provisioner.__init__
Provisioner(max_workers, force, max_retries, provider, dry_run) ==
  [max_workers |-> max_workers, force |-> force, max_retries |-> max_retries,
   provider_name |-> provider, dry_run |-> dry_run,
   provider_instance |-> ProviderInstance(provider, dry_run)]

\* ProvisioningTask.__init__
ProvisioningTask(instance_info, agent_rules, max_retries, status, provider) ==
  [instance_info |-> instance_info, agent_rules |-> agent_rules,
   max_retries |-> max_retries, status |-> status, process_info |-> <<>>,
   agents_status |-> <<>>, provider |-> provider]

\* a call of task.run() that has not begun
NewFrame ==
  [pc |-> "idle", i |-> 0, starts |-> 0, exits |-> <<>>, slept |-> <<>>,
   exc |-> "none", msg |-> <<>>]

\* the main thread before run()
NewMain(pc) ==
  [pc |-> pc, exc |-> "none", error |-> <<>>, parsed |-> <<>>,
   success |-> 0, failure |-> 0, skipped |-> 0, completed |-> 0,
   processed |-> <<>>, validated |-> FALSE, summary |-> FALSE, report |-> <<>>,
   run |-> 1]

\* main(): a Provisioner about to run
InitProvisioner ==
  /\ cfg \in {Provisioner(w, f, r, a[1], a[2]) :
                w \in 1..MaxWorkersBound, f \in BOOLEAN, r \in 0..MaxRetriesBound,
                a \in CliProviderArgs}
  /\ vms_file \in InputFiles
  /\ state_file \in {<<f>> : f \in StateFiles}
  /\ state = <<>>
  /\ entries = <<>>
  /\ tasks = <<>>
  /\ frames = <<>>
  /\ main = NewMain("read_state")
  /\ clock = 1

\* rule lists a task is constructed with
RuleSetSamples == {RLogging.value, RBoth.value, ROps.value}

\* a ProvisioningTask constructed and driven directly (as the unit test does):
\* run(), then wait_for_completion()
InitTask ==
  /\ cfg = Provisioner(1, FALSE, 1, "local-gcloud", FALSE)
  /\ vms_file = <<>>
  /\ state_file = << [kind |-> "missing"] >>
  /\ state = <<>>
  /\ entries = <<>>
  /\ tasks \in { <<ProvisioningTask(InstanceInfo(<<"p">>, <<"z">>, <<"i">>), rs, r, st, pr)>> :
                   rs \in RuleSetSamples, r \in 0..MaxRetriesBound,
                   st \in {PENDING, SKIPPED},
                   pr \in {NoProvider} \cup BuiltinProviders }
  /\ frames = <<NewFrame>>
  /\ main = NewMain("caller")
  /\ clock = 1

Init == InitProvisioner \/ InitTask

(* ------------------------- ProvisioningTask --------------------------- *)
TaskIds == 1..Len(tasks)
\* task.run() has returned or raised
Finished(t) == frames[t].pc \in {"returned", "raised"}
\* a worker is inside task.run()
InRun(t) == frames[t].pc \in {"loop", "wait", "sleep"}

\* InstanceInfo.AsFilename, as the log file of the instance
LogFile(info) == <<info.project, info.zone, info.instance, ".log">>

\* an off-by-one loop bound: one pass too many
RetryRangeInclusive(max_retries) == 0..max_retries

\* range(self.max_retries)
RetryRange(max_retries) == 0..(max_retries - 1)

\* the test inverted: "if process.wait():"
WaitSucceededTruthy(code) == code # 0

\* "if process.wait() == 0"
WaitSucceeded(code) == code = 0

\* run() without its try/except
RunCatchesNothing(exc) == FALSE

\* "except SSHCommandError" of run()
RunCatches(exc) == exc = "SSHCommandError"

\* the sleep after a nonzero exit of attempt i
BackoffSeconds(i) == 2 ^ i

\* run() without its first test
RunNeverReturnsAtOnce(status) == FALSE

\* run(): "if self.status == ProvisioningStatus.SKIPPED: return self"
RunReturnsAtOnce(status) == status = SKIPPED

\* a pool that starts a thread for every submitted task
WorkerAlwaysFree(busy, max_workers) == TRUE

\* ThreadPoolExecutor(max_workers=self.max_workers): a submitted task is
\* taken up only while fewer than max_workers workers are busy
WorkerFree(busy, max_workers) == busy < max_workers

\* a worker of the pool (or a direct caller) enters task.run()
RunBegin(t) ==
  /\ t \in TaskIds
  /\ frames[t].pc = "idle"
  /\ \A u \in 1..(t - 1) : frames[u].pc # "idle"
  /\ WorkerFree(Cardinality({u \in TaskIds : InRun(u)}), cfg.max_workers)
  /\ IF RunReturnsAtOnce(tasks[t].status)
     THEN /\ frames' = [frames EXCEPT ![t].pc = "returned"]
          /\ UNCHANGED tasks
     ELSE /\ tasks' = [tasks EXCEPT ![t].status = RUNNING]
          /\ frames' = [frames EXCEPT ![t].pc = "loop"]
  /\ UNCHANGED <<cfg, vms_file, state_file, state, entries, main, clock>>

\* one pass of the retry loop up to process.wait(): the provider (or _popen)
\* is asked for a process; a provider whose start_process does not take the
\* two arguments passed raises TypeError, which run() does not catch
StartProcess(t) ==
  /\ t \in TaskIds
  /\ frames[t].pc = "loop"
  /\ frames[t].i \in RetryRange(tasks[t].max_retries)
  /\ IF tasks[t].provider # NoProvider
          /\ ProviderParams(tasks[t].provider) # StartProcessArgs
     THEN frames' = [frames EXCEPT ![t].pc = "raised", ![t].exc = "TypeError"]
     ELSE frames' = [frames EXCEPT ![t].pc = "wait", ![t].starts = @ + 1]
  /\ UNCHANGED <<cfg, vms_file, state_file, state, entries, tasks, main, clock>>

\* process.wait() returns: zero ends _start_process with the ProcessInfo
ProcessWait(t) ==
  /\ t \in TaskIds
  /\ frames[t].pc = "wait"
  /\ \E code \in ExitCodes :
       IF WaitSucceeded(code)
       THEN /\ tasks' = [tasks EXCEPT ![t].process_info =
                           << [process |-> [attempt |-> frames[t].starts],
                               log_file |-> LogFile(tasks[t].instance_info),
                               out_content |-> <<>>, killed |-> FALSE] >>]
            /\ frames' = [frames EXCEPT ![t].pc = "returned",
                                        ![t].exits = Append(@, code)]
       ELSE /\ frames' = [frames EXCEPT ![t].pc = "sleep",
                                        ![t].exits = Append(@, code)]
            /\ UNCHANGED tasks
  /\ UNCHANGED <<cfg, vms_file, state_file, state, entries, main, clock>>

\* time.sleep(2**i), then the next pass
Backoff(t) ==
  /\ t \in TaskIds
  /\ frames[t].pc = "sleep"
  /\ frames' = [frames EXCEPT ![t].pc = "loop", ![t].i = @ + 1,
                              ![t].slept = Append(@, BackoffSeconds(frames[t].i))]
  /\ UNCHANGED <<cfg, vms_file, state_file, state, entries, tasks, main, clock>>

\* the text of the SSHCommandError: the instance, the retries, the log file
SSHCommandErrorMessage(task) ==
  <<task.instance_info.instance, task.max_retries, LogFile(task.instance_info)>>

\* the loop is over without a zero exit: SSHCommandError, which run() turns
\* into FAILURE
RetriesExhausted(t) ==
  /\ t \in TaskIds
  /\ frames[t].pc = "loop"
  /\ frames[t].i \notin RetryRange(tasks[t].max_retries)
  /\ IF RunCatches("SSHCommandError")
     THEN /\ tasks' = [tasks EXCEPT ![t].status = FAILURE]
          /\ frames' = [frames EXCEPT ![t].pc = "returned",
                                      ![t].exc = "SSHCommandError",
                                      ![t].msg = SSHCommandErrorMessage(tasks[t])]
     ELSE /\ frames' = [frames EXCEPT ![t].pc = "raised",
                                      ![t].exc = "SSHCommandError",
                                      ![t].msg = SSHCommandErrorMessage(tasks[t])]
          /\ UNCHANGED tasks
  /\ UNCHANGED <<cfg, vms_file, state_file, state, entries, main, clock>>

\* f"\n{name} runs successfully.\n" in out_content
ContainsMarker(out, t) ==
  \E k \in 1..(Len(out) - 2) :
    out[k] = <<NL>> /\ out[k + 1] = RunsSuccessfully(t) /\ out[k + 2] = <<NL>>

\* any() in place of all()
AnyAgentSucceeded(out, types) == \E k \in 1..Len(types) : ContainsMarker(out, types[k])

\* all(per_agent_success.values())
AllAgentsSucceeded(out, types) == \A k \in 1..Len(types) : ContainsMarker(out, types[k])

\* wait_for_completion does collect output
Collects(task) == task.status # SKIPPED /\ task.process_info # <<>>

\* wait_for_completion past communicate(): the output is kept, the agents
\* are looked up in it and the status is set
Classified(task, out, timed_out) ==
  LET types == Distinct(TypesOf(task.agent_rules))
  IN [task EXCEPT
        !.process_info = << [task.process_info[1] EXCEPT
                               !.out_content = <<out>>,
                               !.killed = timed_out] >>,
        !.agents_status =
           [k \in 1..Len(types) |-> <<types[k], ContainsMarker(out, types[k])>>],
        !.status = IF AllAgentsSucceeded(out, TypesOf(task.agent_rules))
                   THEN SUCCESS ELSE FAILURE]

\* wait_for_completion without its "except subprocess.TimeoutExpired": the
\* timeout ends the method before anything is kept
WaitForCompletionTimeoutEscapes(task, out, timed_out) ==
  IF ~Collects(task) \/ timed_out THEN task
  ELSE Classified(task, out, timed_out)

\* wait_for_completion: out is what communicate() returns, timed_out whether
\* the first communicate(timeout=600) raised TimeoutExpired (then kill())
WaitForCompletion(task, out, timed_out) ==
  IF ~Collects(task) THEN task
  ELSE Classified(task, out, timed_out)

(* ---------------------------- Provisioner ----------------------------- *)
\* _read_state without its "if self.force: return"
ReadStateIgnoringForce(force, file) ==
  IF file.kind = "missing" THEN [ok |-> TRUE, value |-> <<>>]
  ELSE IF file.kind = "garbage" THEN [ok |-> FALSE, exc |-> "JSONDecodeError"]
  ELSE [ok |-> TRUE, value |-> file.value]

\* _read_state: the mapping loaded, or the exception that escapes
\* (only FileNotFoundError is caught)
ReadStateResult(force, file) ==
  IF force THEN [ok |-> TRUE, value |-> <<>>]
  ELSE IF file.kind = "missing" THEN [ok |-> TRUE, value |-> <<>>]
  ELSE IF file.kind = "garbage" THEN [ok |-> FALSE, exc |-> "JSONDecodeError"]
  ELSE [ok |-> TRUE, value |-> file.value]

RECURSIVE EntriesOf(_)
\* the (instance_full_name, agent_rules) pairs of the records
EntriesOf(rows) ==
  IF rows = <<>> THEN <<>>
  ELSE IF Head(rows) = <<>> THEN EntriesOf(Tail(rows))
  ELSE << <<Strip(Head(rows)[1]), Head(rows)[2]>> >> \o EntriesOf(Tail(rows))

\* a reader that passes over the records it cannot unpack
ReadEntriesFromFileSkipping(rows) ==
  [ok |-> TRUE, value |-> EntriesOf(SelectSeq(rows, LAMBDA r : Len(r) \in {0, 2}))]

\* _read_entries_from_file: the first record of other than two fields raises
\* Exception(f"Incorrect entry {entry}. ...")
ReadEntriesFromFile(rows) ==
  LET bad == {k \in 1..Len(rows) : rows[k] # <<>> /\ Len(rows[k]) # 2}
  IN IF bad # {}
     THEN [ok |-> FALSE, exc |-> "Exception",
           msg |-> <<"Incorrect entry", rows[CHOOSE k \in bad : \A j \in bad : k <= j]>>]
     ELSE [ok |-> TRUE, value |-> EntriesOf(rows)]

\* the skip test of run(): raises KeyError on an entry without "status"
SkipTestRaises(st, name) == name \in DOMAIN st /\ "status" \notin DOMAIN st[name]

\* the stored string compared with the enum's repr: never equal
ShouldSkipEnumRepr(st, name) ==
  name \in DOMAIN st /\ st[name].status = "ProvisioningStatus.SUCCESS"

\* a skip test that passes over every recorded host, whatever its status
ShouldSkipRecorded(st, name) == name \in DOMAIN st

\* the skip test of run(), when it does not raise
ShouldSkip(st, name) == name \in DOMAIN st /\ st[name].status = SUCCESS

\* self.state = {key: value}
StateOnly(st, key, value) == [h \in {key} |-> value]

\* self.state[key] = value
StateWith(st, key, value) ==
  [h \in DOMAIN st \cup {key} |-> IF h = key THEN value ELSE st[h]]

\* an exception that leaves run(): inside the "with" block the pool is first
\* shut down, which waits for the submitted tasks
Raise(m, exc, in_pool) ==
  [m EXCEPT !.pc = IF in_pool THEN "unwinding" ELSE "crashed", !.exc = exc]

\* run(): self._read_state()
ReadState ==
  /\ main.pc = "read_state"
  /\ LET r == ReadStateResult(cfg.force, CurrentFile)
     IN IF r.ok
        THEN /\ state' = r.value
             /\ main' = [main EXCEPT !.pc = "read_entries"]
        ELSE /\ main' = Raise(main, r.exc, FALSE)
             /\ UNCHANGED state
  /\ UNCHANGED <<cfg, vms_file, state_file, entries, tasks, frames, clock>>

\* run(): entries = self._read_entries_from_file()
ReadEntries ==
  /\ main.pc = "read_entries"
  /\ LET r == ReadEntriesFromFile(vms_file)
     IN IF r.ok
        THEN /\ entries' = r.value
             /\ main' = [main EXCEPT !.pc = "validate"]
        ELSE /\ main' = [Raise(main, r.exc, FALSE) EXCEPT !.error = r.msg]
             /\ UNCHANGED entries
  /\ UNCHANGED <<cfg, vms_file, state_file, state, tasks, frames, clock>>

\* run(): parsed_entries = self._parse_and_validate_entries(entries), and the
\* return on EntriesValidationError
Validate ==
  /\ main.pc = "validate"
  /\ LET r == ParseAndValidateEntries(entries)
     IN IF r.ok
        THEN main' = [main EXCEPT !.pc = "submit", !.parsed = r.value,
                                  !.validated = TRUE]
        ELSE main' = [main EXCEPT !.pc = "stopped", !.error = r.error]
  /\ UNCHANGED <<cfg, vms_file, state_file, state, entries, tasks, frames, clock>>

\* a loop that walks parsed_entries from its end
NextEntryFromEnd(parsed, n) == parsed[Len(parsed) - n]

\* "for parsed_instance_name, agent_rules in parsed_entries": the entry of
\* the pass that follows n passes
NextEntry(parsed, n) == parsed[n + 1]

\* run(): one pass of the loop over parsed_entries: the task is created
\* (SKIPPED or PENDING) and submitted to the pool
Submit ==
  /\ main.pc = "submit"
  /\ Len(tasks) < Len(main.parsed)
  /\ LET e == NextEntry(main.parsed, Len(tasks))
         instance_full_name == InstanceStr(e[1])
     IN IF SkipTestRaises(state, instance_full_name)
        THEN /\ main' = Raise(main, "KeyError", TRUE)
             /\ UNCHANGED <<tasks, frames>>
        ELSE /\ tasks' = Append(tasks,
                  ProvisioningTask(e[1], e[2], cfg.max_retries,
                                   IF ShouldSkip(state, instance_full_name)
                                   THEN SKIPPED ELSE PENDING,
                                   cfg.provider_instance))
             /\ frames' = Append(frames, NewFrame)
             /\ UNCHANGED main
  /\ UNCHANGED <<cfg, vms_file, state_file, state, entries, clock>>

\* run(): the loop is over; _write_process_output_and_print_status begins
Submitted ==
  /\ main.pc = "submit"
  /\ Len(tasks) = Len(main.parsed)
  /\ main' = [main EXCEPT !.pc = "collect"]
  /\ UNCHANGED <<cfg, vms_file, state_file, state, entries, tasks, frames, clock>>

\* a loop that takes the futures in any state, done or not
FutureTakenAtOnce(t) == TRUE

\* as_completed yields a future once its task.run() has returned or raised
FutureDone(t) == Finished(t)

\* a loop that records the outcome of every task, skipped or not
RecordsEveryOutcome(status) == TRUE

\* "if task.status != ProvisioningStatus.SKIPPED": the task's outcome goes
\* into the state mapping
RecordsOutcome(status) == status # SKIPPED

\* a tally without its last branch: a skipped task is counted nowhere
TallyWithoutSkipped(m, status) ==
  [m EXCEPT !.success = IF status = SUCCESS THEN @ + 1 ELSE @,
            !.failure = IF status = FAILURE THEN @ + 1 ELSE @]

\* a lost update: the increment starts from a stale zero
TallyFromStale(m, status) ==
  [m EXCEPT !.success = IF status = SUCCESS THEN 1 ELSE @,
            !.failure = IF status = FAILURE THEN 1 ELSE @,
            !.skipped = IF status = SKIPPED THEN 1 ELSE @]

\* the tally of one completion
Tally(m, status) ==
  [m EXCEPT !.success = IF status = SUCCESS THEN @ + 1 ELSE @,
            !.failure = IF status = FAILURE THEN @ + 1 ELSE @,
            !.skipped = IF status = SKIPPED THEN @ + 1 ELSE @]

\* one pass of the as_completed loop: future.result() (which re-raises what
\* task.run() raised), wait_for_completion, the state entry, the tally
ProcessCompletion(t) ==
  /\ main.pc = "collect"
  /\ t \in TaskIds
  /\ FutureDone(t)
  /\ \A k \in 1..Len(main.processed) : main.processed[k] # t
  /\ IF frames[t].pc = "raised"
     THEN /\ main' = Raise([main EXCEPT !.completed = @ + 1], frames[t].exc, TRUE)
          /\ UNCHANGED <<tasks, state, clock>>
     ELSE \E out \in (IF Collects(tasks[t]) THEN Outputs ELSE {<<>>}),
             timed_out \in (IF Collects(tasks[t]) THEN BOOLEAN ELSE {FALSE}) :
            LET task == WaitForCompletion(tasks[t], out, timed_out)
            IN /\ tasks' = [tasks EXCEPT ![t] = task]
               /\ IF RecordsOutcome(task.status)
                  THEN /\ state' = StateWith(state, InstanceStr(task.instance_info),
                                     [status |-> task.status, last_updated |-> clock])
                       /\ clock' = clock + 1
                  ELSE UNCHANGED <<state, clock>>
               /\ main' = [Tally(main, task.status) EXCEPT
                             !.completed = @ + 1,
                             !.processed = Append(@, t)]
  /\ UNCHANGED <<cfg, vms_file, state_file, entries, frames>>

\* the lines printed for one task: "was skipped", or one line for each
\* item of agents_status with the log file
TaskLines(task) ==
  IF task.status = SKIPPED THEN << <<task.instance_info, "was skipped">> >>
  ELSE [k \in 1..Len(task.agents_status) |->
          <<task.instance_info,
            IF task.agents_status[k][2] THEN "successfully runs" ELSE "fails to run",
            task.agents_status[k][1], task.process_info[1].log_file>>]

RECURSIVE ItemizedReport(_)
\* "for task in self.tasks": the lines of every task, in the order of tasks
ItemizedReport(ts) ==
  IF ts = <<>> THEN <<>> ELSE TaskLines(Head(ts)) \o ItemizedReport(Tail(ts))

\* the itemized report and the summary; "completed" is bound by the first
\* pass of the as_completed loop only
PrintStatus ==
  /\ main.pc = "collect"
  /\ Len(main.processed) = Len(tasks)
  /\ IF main.completed = 0
     THEN main' = [Raise(main, "UnboundLocalError", TRUE) EXCEPT
                     !.report = ItemizedReport(tasks)]
     ELSE main' = [main EXCEPT !.pc = "write_state", !.summary = TRUE,
                               !.report = ItemizedReport(tasks)]
  /\ UNCHANGED <<cfg, vms_file, state_file, state, entries, tasks, frames, clock>>

\* a writer that adds the mapping to the object the file already holds
DumpedOver(file, st) ==
  [kind |-> "json",
   value |-> IF file.kind # "json" THEN st
             ELSE [h \in DOMAIN file.value \cup DOMAIN st |->
                     IF h \in DOMAIN st THEN st[h] ELSE file.value[h]]]

\* _write_state: open(self.state_file, "w") and json.dump(self.state): the
\* file holds the mapping and nothing else
Dumped(file, st) == [kind |-> "json", value |-> st]

\* run(): self._write_state()
WriteState ==
  /\ main.pc = "write_state"
  /\ state_file' = Append(state_file, Dumped(CurrentFile, state))
  /\ main' = [main EXCEPT !.pc = "done"]
  /\ UNCHANGED <<cfg, vms_file, state, entries, tasks, frames, clock>>

\* a "finally: self._write_state()" around the pool
StateFileFlushedOnUnwind(file, st) == Append(file, [kind |-> "json", value |-> st])

\* the state file when an exception leaves the "with" block of run(): no
\* handler of run() writes it
StateFileOnUnwind(file, st) == file

\* ThreadPoolExecutor.__exit__ has waited for every submitted task; the
\* exception leaves run()
Unwind ==
  /\ main.pc = "unwinding"
  /\ \A t \in TaskIds : Finished(t)
  /\ main' = [main EXCEPT !.pc = "crashed"]
  /\ state_file' = StateFileOnUnwind(state_file, state)
  /\ UNCHANGED <<cfg, vms_file, state, entries, tasks, frames, clock>>

(* --------------------------- direct caller ---------------------------- *)
\* task.run() returned to a direct caller, which calls wait_for_completion()
CallerWait ==
  /\ main.pc = "caller"
  /\ frames[1].pc = "returned"
  /\ \E out \in (IF Collects(tasks[1]) THEN Outputs ELSE {<<>>}),
        timed_out \in (IF Collects(tasks[1]) THEN BOOLEAN ELSE {FALSE}) :
       tasks' = [tasks EXCEPT ![1] = WaitForCompletion(tasks[1], out, timed_out)]
  /\ main' = [main EXCEPT !.pc = "caller_done"]
  /\ UNCHANGED <<cfg, vms_file, state_file, state, entries, frames, clock>>

\* task.run() raised to a direct caller
CallerRaised ==
  /\ main.pc = "caller"
  /\ frames[1].pc = "raised"
  /\ main' = [main EXCEPT !.pc = "caller_raised", !.exc = frames[1].exc]
  /\ UNCHANGED <<cfg, vms_file, state_file, state, entries, tasks, frames, clock>>

Next ==
  \/ ReadState
  \/ ReadEntries
  \/ Validate
  \/ Submit
  \/ Submitted
  \/ \E t \in TaskIds : RunBegin(t)
  \/ \E t \in TaskIds : StartProcess(t)
  \/ \E t \in TaskIds : ProcessWait(t)
  \/ \E t \in TaskIds : Backoff(t)
  \/ \E t \in TaskIds : RetriesExhausted(t)
  \/ \E t \in TaskIds : ProcessCompletion(t)
  \/ PrintStatus
  \/ WriteState
  \/ Unwind
  \/ CallerWait
  \/ CallerRaised

Spec == Init /\ [][Next]_vars

(* ------------------ the validation methods, called directly ----------- *)
\* longest project, zone or instance name explored
MaxNameLen == 2
\* longest version string explored
MaxVersionLen == 6
\* longest decoded rule list explored
MaxRules == 3
\* most entries handed to _parse_and_validate_entries
MaxValidated == 4

StringsUpTo(alphabet, n) == UNION {[1..k -> alphabet] : k \in 0..n}

\* names: a letter, a digit, the hyphen, the underscore, the slash, a newline
NameStrings == StringsUpTo({"a", "1", "-", "_", "/", NL}, MaxNameLen)

Host(project, zone, instance) == InstanceStr(InstanceInfo(project, zone, instance))

\* instance full names: one name varied at a time, and strings of another shape
HostStrings ==
  {Host(x, <<"z">>, <<"a">>) : x \in NameStrings}
    \cup {Host(<<"p">>, x, <<"a">>) : x \in NameStrings}
    \cup {Host(<<"p">>, <<"z">>, x) : x \in NameStrings}
    \cup {BadHost, <<" ">> \o HostA, <<"a">> \o HostA,
          Zones \o <<"/">> \o <<"z">> \o <<"/">> \o Instances \o <<"/">> \o <<"a">>}

\* version strings: digits, dots, stars and newlines, and the words of the tests
VersionStrings ==
  StringsUpTo({"1", ".", "*", NL}, MaxVersionLen)
    \cup {AgentVersionLatest, AgentVersionLatest \o <<NL>>, <<"v", "1">>,
          <<"i", "n", "v", "a", "l", "i", "d">>, <<"1", "2", ".", "1", ".", "2">>}

\* decoded rule lists in which every rule has a type
TypedRuleLists ==
  UNION {[1..n -> {[type |-> t] : t \in {"invalid-type"} \cup AgentTypes}] :
           n \in 0..MaxRules}

\* decoded rules: with or without a type, with or without a version
RuleSamples ==
  {[type |-> t] : t \in {"invalid-type"} \cup AgentTypes}
    \cup { [version |-> <<"1", ".", "2", ".", "1">>],
           [type |-> LOGGING, version |-> <<"v", "1">>],
           [type |-> METRICS, version |-> <<"1", ".", "*", ".", "*">>] }

\* rules strings: one json.loads rejects, and those that decode to a list
RulesStrings ==
  {[decodes |-> FALSE, value |-> <<>>]}
    \cup {[decodes |-> TRUE, value |-> v] :
            v \in UNION {[1..n -> RuleSamples] : n \in 0..MaxRules}}

RNotJson == [decodes |-> FALSE, value |-> <<>>]
RNoType == [decodes |-> TRUE, value |-> << [version |-> <<"1", ".", "2", ".", "1">>] >>]

\* entries: two valid instances, each also with rules that fail, and an
\* invalid instance name with rules that pass or fail
EntrySamples ==
  { <<HostA, RLogging>>, <<HostB, RBoth>>, <<HostA, RNotJson>>,
    <<HostB, RInvalidType>>, <<BadHost, RLogging>>, <<BadHost, RNoType>> }

EntryLists == UNION {[1..n -> EntrySamples] : n \in 0..MaxValidated}

\* the methods called and the arguments each is called with
MethodArgs(method) ==
  CASE method = "_parse_and_validate_instance_full_name" -> HostStrings
    [] method = "_validate_agent_version" -> VersionStrings
    [] method = "_validate_agent_types" -> TypedRuleLists
    [] method = "_extract_agent_rules" -> RulesStrings
    [] method = "_parse_and_validate_agent_rules" -> RulesStrings
    [] method = "_parse_and_validate_entries" -> EntryLists

Methods ==
  {"_parse_and_validate_instance_full_name", "_validate_agent_version",
   "_validate_agent_types", "_extract_agent_rules",
   "_parse_and_validate_agent_rules", "_parse_and_validate_entries"}

\* setUp of the unit test: a Provisioner whose run() is not called, and the
\* one method call the test is about to make
InitValidation ==
  /\ cfg = Provisioner(1, FALSE, 1, "local-gcloud", FALSE)
  /\ vms_file = <<>>
  /\ state_file = << [kind |-> "missing"] >>
  /\ state = <<>>
  /\ entries = <<>>
  /\ tasks = <<>>
  /\ frames = <<>>
  /\ \E method \in Methods : \E arg \in MethodArgs(method) :
       main = [pc |-> "call", method |-> method, arg |-> arg]
  /\ clock = 1

\* the call returns its value or raises its error
Return(result) ==
  /\ main' = [pc |-> "called", method |-> main.method, arg |-> main.arg,
              result |-> result]
  /\ UNCHANGED <<cfg, vms_file, state_file, state, entries, tasks, frames, clock>>

Calling(method) == main.pc = "call" /\ main.method = method

CallParseAndValidateInstanceFullName ==
  /\ Calling("_parse_and_validate_instance_full_name")
  /\ Return(ParseAndValidateInstanceFullName(main.arg))

CallValidateAgentVersion ==
  /\ Calling("_validate_agent_version")
  /\ Return(ValidateAgentVersion(main.arg))

CallValidateAgentTypes ==
  /\ Calling("_validate_agent_types")
  /\ Return(ValidateAgentTypes(main.arg))

CallExtractAgentRules ==
  /\ Calling("_extract_agent_rules")
  /\ Return(ExtractAgentRules(HostA, main.arg))

CallParseAndValidateAgentRules ==
  /\ Calling("_parse_and_validate_agent_rules")
  /\ Return(ParseAndValidateAgentRules(HostA, main.arg))

CallParseAndValidateEntries ==
  /\ Calling("_parse_and_validate_entries")
  /\ Return(ParseAndValidateEntries(main.arg))

NextValidation ==
  \/ CallParseAndValidateInstanceFullName
  \/ CallValidateAgentVersion
  \/ CallValidateAgentTypes
  \/ CallExtractAgentRules
  \/ CallParseAndValidateAgentRules
  \/ CallParseAndValidateEntries

SpecValidation == InitValidation /\ [][NextValidation]_vars

(* ------------------- a run that stopped, run again -------------------- *)
\* the tool is started again with the same arguments and input after a run
\* that ended with an exception: a new Provisioner, the state file as it is
Rerun ==
  /\ main.pc = "crashed"
  /\ main.run = 1
  /\ main' = [NewMain("read_state") EXCEPT !.run = 2]
  /\ state' = <<>>
  /\ entries' = <<>>
  /\ tasks' = <<>>
  /\ frames' = <<>>
  /\ UNCHANGED <<cfg, vms_file, state_file, clock>>

\* runs without --force
InitRerun == (InitProvisioner /\ ~cfg.force) \/ InitTask

NextRerun == Next \/ Rerun

SpecRerun == InitRerun /\ [][NextRerun]_vars

(* ---------------- the remote command of _start_process ---------------- *)
\* _AGENT_DETAILS: the repository script, the start command and the extra
\* install flags of an agent type
AgentDetail(t) ==
  CASE t = LOGGING ->
         [name |-> AgentName(t), repo_script |-> "add-logging-agent-repo.sh",
          start_agent_script |-> "sudo service google-fluentd start",
          additional_install_flags |-> ""]
    [] t = METRICS ->
         [name |-> AgentName(t), repo_script |-> "add-monitoring-agent-repo.sh",
          start_agent_script |-> "sudo service stackdriver-agent start",
          additional_install_flags |-> ""]
    [] t = OPS_AGENT ->
         [name |-> AgentName(t), repo_script |-> "add-google-cloud-ops-agent-repo.sh",
          start_agent_script |-> ":",
          additional_install_flags |->
            "--uninstall-standalone-logging-agent --uninstall-standalone-monitoring-agent"]

StartingMarker == <<"echo \"$(date -Ins) Starting running commands.\"">>
FinishedMarker == <<"echo \"$(date -Ins) Finished running commands.\"">>

\* a version flag on every command: "latest" where the rule names none
InstallVersionDefaulted(agent_rule) ==
  <<"--version=">> \o (IF "version" \in DOMAIN agent_rule
                       THEN agent_rule.version ELSE AgentVersionLatest)

\* f"--version={agent_rule['version']}" if "version" in agent_rule else ""
InstallVersion(agent_rule) ==
  IF "version" \in DOMAIN agent_rule
  THEN <<"--version=">> \o agent_rule.version ELSE <<>>

\* _INSTALL_COMMAND.format(...): the text of the template with its fields
\* filled in, piece by piece
InstallCommand(agent_rule) ==
  LET agent_details == AgentDetail(agent_rule.type)
  IN <<"curl -sSO https://dl.google.com/cloudagents/", agent_details.repo_script,
       "; sudo bash ", agent_details.repo_script, " --also-install ">>
       \o InstallVersion(agent_rule)
       \o <<" ", agent_details.additional_install_flags, "; ",
            agent_details.start_agent_script,
            "; for i in {1..3}; do if (ps aux | grep 'opt[/].*",
            agent_details.name, ".*bin/'); then echo '", agent_details.name,
            " runs successfully.'; break; fi; sleep 1s; done">>

\* the list "commands": the first echo, one command for each rule, the last
\* echo
Commands(agent_rules) ==
  <<StartingMarker>>
    \o [k \in 1..Len(agent_rules) |-> InstallCommand(agent_rules[k])]
    \o <<FinishedMarker>>

RECURSIVE Join(_, _)
\* sep.join(parts)
Join(parts, sep) ==
  IF parts = <<>> THEN <<>>
  ELSE IF Len(parts) = 1 THEN Head(parts)
  ELSE Head(parts) \o <<sep>> \o Join(Tail(parts), sep)

\* versions a rule may carry past validation
CommandVersions ==
  {AgentVersionLatest, <<"1", ".", "*", ".", "*">>, <<"1", ".", "2", ".", "3">>}

\* rules of a task: a type of _AGENT_DETAILS, with or without a version
CommandRules ==
  {[type |-> t] : t \in AgentTypes}
    \cup {[type |-> t, version |-> v] : t \in AgentTypes, v \in CommandVersions}

\* a ProvisioningTask constructed directly with its rules, about to build
\* its command
InitCommand ==
  /\ cfg = Provisioner(1, FALSE, 1, "local-gcloud", FALSE)
  /\ vms_file = <<>>
  /\ state_file = << [kind |-> "missing"] >>
  /\ state = <<>>
  /\ entries = <<>>
  /\ \E agent_rules \in UNION {[1..n -> CommandRules] : n \in 0..MaxRules} :
       tasks = << ProvisioningTask(InstanceInfo(<<"p">>, <<"z">>, <<"i">>),
                                   agent_rules, 1, PENDING, NoProvider) >>
  /\ frames = <<NewFrame>>
  /\ main = [pc |-> "build"]
  /\ clock = 1

\* _start_process up to command_str = ";".join(commands)
BuildCommand ==
  /\ main.pc = "build"
  /\ LET commands == Commands(tasks[1].agent_rules)
     IN main' = [pc |-> "built", commands |-> commands,
                 command_str |-> Join(commands, ";")]
  /\ UNCHANGED <<cfg, vms_file, state_file, state, entries, tasks, frames, clock>>

NextCommand == BuildCommand

SpecCommand == InitCommand /\ [][NextCommand]_vars

(* ------------------- a finished run, followed by another --------------- *)
\* the tool is started again with the same arguments and input right after
\* a run that wrote the state file: a new Provisioner reads what was written
RunAgain ==
  /\ main.pc = "done"
  /\ main.run = 1
  /\ main' = [NewMain("read_state") EXCEPT !.run = 2]
  /\ state' = <<>>
  /\ entries' = <<>>
  /\ tasks' = <<>>
  /\ frames' = <<>>
  /\ UNCHANGED <<cfg, vms_file, state_file, clock>>

NextAgain == Next \/ RunAgain

SpecAgain == InitRerun /\ [][NextAgain]_vars

(* ------------------------------- main() ------------------------------- *)
\* values of --provider
ProviderNames == {"local-gcloud", "mock", "paramiko"}

\* main() after parse_args: the arguments, no Provisioner yet
InitMain ==
  /\ cfg \in [max_workers : 1..MaxWorkersBound, force : BOOLEAN,
               max_retries : 0..MaxRetriesBound, provider_name : ProviderNames,
               dry_run : BOOLEAN]
  /\ vms_file = <<>>
  /\ state_file = << [kind |-> "missing"] >>
  /\ state = <<>>
  /\ entries = <<>>
  /\ tasks = <<>>
  /\ frames = <<>>
  /\ main = NewMain("main")
  /\ clock = 1

\* main(): provisioner = Provisioner(...)
Construct ==
  /\ main.pc = "main"
  /\ cfg' = Provisioner(cfg.max_workers, cfg.force, cfg.max_retries,
                        cfg.provider_name, cfg.dry_run)
  /\ main' = [main EXCEPT !.pc = "constructed"]
  /\ UNCHANGED <<vms_file, state_file, state, entries, tasks, frames, clock>>

NextMain == Construct

SpecMain == InitMain /\ [][NextMain]_vars

(* ------------------------------ claims -------------------------------- *)
\* a ProvisioningTask driven directly, outside Provisioner.run()
DirectCall == main.pc \in {"caller", "caller_done", "caller_raised"}
Orchestrated == ~DirectCall

AllNonzero(exits) == \A k \in 1..Len(exits) : exits[k] # 0

\* C1: a task whose every attempt reports a nonzero exit starts the remote
\* operation exactly max_retries times and then raises SSHCommandError, whose
\* text names the instance and the log file; it never starts one more
\* operation and never returns a process handle.
C1_RetryExhaustion ==
  \A t \in TaskIds :
    LET f == frames[t]
        N == tasks[t].max_retries
    IN /\ f.starts <= N
       /\ f.exc = "SSHCommandError" =>
            /\ f.starts = N
            /\ Len(f.exits) = N
            /\ AllNonzero(f.exits)
            /\ tasks[t].process_info = <<>>
            /\ f.msg[1] = tasks[t].instance_info.instance
            /\ f.msg[3] = LogFile(tasks[t].instance_info)
       /\ ( /\ Finished(t)
            /\ tasks[t].status # SKIPPED
            /\ f.exc # "TypeError"
            /\ AllNonzero(f.exits) )
          => (f.exc = "SSHCommandError" /\ f.starts = N)

\* two attempts, both nonzero, then the SSHCommandError
C1_Witness ==
  \E t \in TaskIds :
    /\ tasks[t].max_retries = 2
    /\ frames[t].exits = <<1, 1>>
    /\ frames[t].starts = 2
    /\ frames[t].exc = "SSHCommandError"

\* C2: when attempt K is the first to report exit zero (K <= max_retries),
\* exactly K operations were started, none is started afterwards, no
\* exception is raised and the ProcessInfo holds the K-th process.
C2_RetrySuccess ==
  \A t \in TaskIds :
    \A K \in 1..Len(frames[t].exits) :
      frames[t].exits[K] = 0 =>
        /\ K = Len(frames[t].exits)
        /\ K <= tasks[t].max_retries
        /\ frames[t].starts = K
        /\ frames[t].pc = "returned"
        /\ frames[t].exc = "none"
        /\ tasks[t].process_info # <<>>
        /\ tasks[t].process_info[1].process.attempt = K

\* a nonzero exit, then a zero exit on the second attempt
C2_Witness ==
  \E t \in TaskIds :
    /\ frames[t].exits = <<1, 0>>
    /\ frames[t].starts = 2
    /\ frames[t].pc = "returned"

\* the canonical string of a task's host, the key of the state mapping
HostKey(t) == InstanceStr(tasks[t].instance_info)

\* the state file the run found records SUCCESS for the host
PriorSuccess(name) ==
  /\ PriorFile.kind = "json"
  /\ name \in DOMAIN PriorFile.value
  /\ "status" \in DOMAIN PriorFile.value[name]
  /\ PriorFile.value[name].status = SUCCESS

\* the tasks whose completion the as_completed loop has processed
Processed == {main.processed[k] : k \in 1..Len(main.processed)}
ProcessedWith(status) == {t \in Processed : tasks[t].status = status}

\* the pool has been shut down: run() is past its "with" block
PoolShutDown == main.pc \in {"write_state", "done", "crashed"}

\* C3: a host the loaded state records as SUCCESS, with force off, gets a
\* task that is SKIPPED from creation to the end of the run, never calls the
\* executor, collects no output, and is counted as skipped.
C3_IdempotentResumption ==
  Orchestrated =>
    \A t \in TaskIds :
      (~cfg.force /\ PriorSuccess(HostKey(t))) =>
        /\ tasks[t].status = SKIPPED
        /\ frames[t].pc \in {"idle", "returned"}
        /\ frames[t].starts = 0 /\ frames[t].exits = <<>> /\ frames[t].exc = "none"
        /\ tasks[t].process_info = <<>> /\ tasks[t].agents_status = <<>>
        /\ t \in Processed =>
             /\ main.skipped = Cardinality(ProcessedWith(SKIPPED))
             /\ main.success = Cardinality(ProcessedWith(SUCCESS))
             /\ main.failure = Cardinality(ProcessedWith(FAILURE))
        /\ main.pc = "done" => t \in Processed

\* a finished run with a skipped host and a dispatched one
C3_Witness ==
  /\ Orchestrated /\ main.pc = "done" /\ ~cfg.force
  /\ \E t, u \in TaskIds :
       /\ PriorSuccess(HostKey(t)) /\ tasks[t].status = SKIPPED
       /\ tasks[u].status = FAILURE
  /\ main.skipped = 1 /\ main.failure = 1

\* C4: a task is SKIPPED exactly when the state file records SUCCESS for
\* its host and force is off; every other task is created PENDING and is
\* run by the pool.
C4_SkipDecision ==
  Orchestrated =>
    \A t \in TaskIds :
      /\ tasks[t].status = SKIPPED <=> (~cfg.force /\ PriorSuccess(HostKey(t)))
      /\ (frames[t].pc = "idle" /\ tasks[t].status # SKIPPED)
           => tasks[t].status = PENDING
      /\ (PoolShutDown /\ tasks[t].status # SKIPPED)
           => (Finished(t) /\ tasks[t].status \in {RUNNING, SUCCESS, FAILURE})

\* force on: a host recorded SUCCESS is dispatched all the same, beside a
\* host recorded FAILURE
C4_Witness ==
  /\ Orchestrated /\ cfg.force /\ PoolShutDown
  /\ \E t \in TaskIds :
       PriorSuccess(HostKey(t)) /\ tasks[t].status # SKIPPED /\ Finished(t)

\* an entry whose host name, rules or uniqueness fails validation
HasValidationError(es) ==
  \E k \in 1..Len(es) :
    \/ ~FullNameMatches(es[k][1])
    \/ ~ParseAndValidateAgentRules(es[k][1], es[k][2]).ok
    \/ \E j \in 1..Len(es) : j # k /\ es[j][1] = es[k][1]

EntryIsValid(e) ==
  FullNameMatches(e[1]) /\ ParseAndValidateAgentRules(e[1], e[2]).ok

\* C5: when any entry has a validation error, no task is created, no
\* executor is invoked and the state file is never written.
C5_AllOrNothing ==
  (Orchestrated /\ HasValidationError(entries)) =>
    /\ tasks = <<>> /\ frames = <<>>
    /\ Writes = 0 /\ state_file = <<PriorFile>>
    /\ main.pc \in {"validate", "stopped"}

\* the run has stopped on an input with a valid entry beside an invalid one
C5_Witness ==
  /\ Orchestrated /\ main.pc = "stopped" /\ main.error # <<>>
  /\ \E j, k \in 1..Len(entries) :
       /\ EntryIsValid(entries[j])
       /\ \A m \in 1..Len(entries) : m # j => entries[m][1] # entries[j][1]
       /\ ~EntryIsValid(entries[k])

\* the agent's "<name> runs successfully." between two newlines
MarkerLineAt(out, j, type) ==
  /\ 1 < j /\ j < Len(out)
  /\ out[j - 1] = <<NL>>
  /\ out[j] = <<AgentName(type), " runs successfully.">>
  /\ out[j + 1] = <<NL>>

\* C6: once the output of a zero-exit command is collected, the status is
\* SUCCESS exactly when the output holds the marker of every agent type of
\* the rule set, and FAILURE otherwise.
C6_Classification ==
  \A t \in TaskIds :
    (tasks[t].process_info # <<>> /\ tasks[t].process_info[1].out_content # <<>>) =>
      LET out == tasks[t].process_info[1].out_content[1]
          rules == tasks[t].agent_rules
          every == \A k \in 1..Len(rules) :
                     \E j \in 1..Len(out) : MarkerLineAt(out, j, rules[k].type)
      IN /\ frames[t].exits # <<>>
         /\ frames[t].exits[Len(frames[t].exits)] = 0
         /\ every => tasks[t].status = SUCCESS
         /\ ~every => tasks[t].status = FAILURE

\* partial success: the logging marker is there, the metrics marker is not
C6_Witness ==
  \E t \in TaskIds :
    /\ tasks[t].agent_rules = << [type |-> LOGGING], [type |-> METRICS] >>
    /\ tasks[t].process_info # <<>>
    /\ tasks[t].process_info[1].out_content
         = << << <<"other text">>, <<NL>>, RunsSuccessfully(LOGGING), <<NL>> >> >>
    /\ tasks[t].status = FAILURE

\* the state entry written for a task carries its status
Recorded(t, file) ==
  /\ file.kind = "json"
  /\ HostKey(t) \in DOMAIN file.value
  /\ file.value[HostKey(t)].status = tasks[t].status

\* C7: an SSHCommandError ends its own task with FAILURE and never leaves
\* run(); the other tasks are still run by the pool, and a run that
\* finishes has every task in a terminal status and recorded.
C7_TransportFailureHostLocal ==
  Orchestrated =>
    /\ main.exc # "SSHCommandError"
    /\ \A t \in TaskIds :
         frames[t].exc = "SSHCommandError" =>
           /\ tasks[t].status = FAILURE
           /\ frames[t].pc = "returned"
           /\ t \in Processed => state[HostKey(t)].status = FAILURE
           /\ PoolShutDown =>
                \A u \in TaskIds : Finished(u) /\ tasks[u].status # PENDING
           /\ main.pc = "done" =>
                \A u \in TaskIds :
                  /\ tasks[u].status \in {SUCCESS, FAILURE, SKIPPED}
                  /\ u \in Processed
                  /\ tasks[u].status # SKIPPED => Recorded(u, CurrentFile)

\* a finished run: one host failed by exhausting its retries, another host
\* ended differently, and the failure is on disk
C7_Witness ==
  /\ Orchestrated /\ main.pc = "done" /\ Writes = 1
  /\ \E t, u \in TaskIds :
       /\ t # u
       /\ frames[t].exc = "SSHCommandError" /\ Recorded(t, CurrentFile)
       /\ tasks[u].status = SKIPPED

\* the state file is not a JSON object of entries with a status
Malformed(file) ==
  \/ file.kind = "garbage"
  \/ /\ file.kind = "json"
     /\ \E h \in DOMAIN file.value : "status" \notin DOMAIN file.value[h]

\* C8: a run whose input passed validation never stops with an unhandled
\* exception.  Stated for runs that found a well-formed state file, so that
\* what refutes it is the run itself; violated by the code.
C8_RunCompletes ==
  (Orchestrated /\ main.validated /\ ~Malformed(PriorFile))
    => main.pc \notin {"unwinding", "crashed"}

\* C9: a run whose input passed validation writes the state file exactly
\* once, after every task is terminal, with an entry for each task that was
\* not skipped.  Stated for runs that found a well-formed state file;
\* violated by the code: a run that raises never writes.
C9_FlushedExactlyOnce ==
  (Orchestrated /\ main.validated /\ ~Malformed(PriorFile)) =>
    /\ Writes <= 1
    /\ Writes = 1 =>
         \A t \in TaskIds :
           /\ tasks[t].status \in {SUCCESS, FAILURE, SKIPPED}
           /\ tasks[t].status # SKIPPED => Recorded(t, CurrentFile)
    /\ main.pc \in {"done", "crashed"} => Writes = 1

\* C10: loading the state never aborts the run, and a missing or malformed
\* state file, or force mode, leaves no host skipped (violated by the code).
C10_BestEffortLoad ==
  Orchestrated =>
    /\ main.exc \notin {"JSONDecodeError", "KeyError"}
    /\ (cfg.force \/ PriorFile.kind = "missing" \/ Malformed(PriorFile)) =>
         \A t \in TaskIds : tasks[t].status # SKIPPED

\* the changes of a task's status that the lifecycle allows in one step
LegalStatusStep(old, new) ==
  \/ new = old
  \/ old = PENDING /\ new \in {SKIPPED, RUNNING}
  \/ old = RUNNING /\ new \in {SUCCESS, FAILURE}

\* the step ends the retry loop of task t without a zero exit
ExhaustsRetries(t) ==
  /\ frames[t].exc = "none" /\ frames'[t].exc = "SSHCommandError"
  /\ Len(frames[t].exits) = tasks[t].max_retries
  /\ AllNonzero(frames[t].exits)

\* the step collects the output of task t and looks for the markers
ChecksMarkers(t) ==
  /\ tasks[t].process_info # <<>> /\ tasks[t].process_info[1].out_content = <<>>
  /\ tasks'[t].process_info[1].out_content # <<>>

\* the output collected by the step lacks the marker of some agent type
MarkerCheckFails(t) ==
  LET out == tasks'[t].process_info[1].out_content[1]
  IN \E k \in 1..Len(tasks[t].agent_rules) :
       \A j \in 1..Len(out) : ~MarkerLineAt(out, j, tasks[t].agent_rules[k].type)

\* C11: a task is created PENDING or SKIPPED and not yet run; its status
\* changes only PENDING->SKIPPED (before it has run), PENDING->RUNNING,
\* RUNNING->SUCCESS or RUNNING->FAILURE, so that SUCCESS, FAILURE and SKIPPED
\* are never left and PENDING never becomes SUCCESS or FAILURE; and the
\* status becomes FAILURE exactly in the steps in which the retry loop ends
\* without a zero exit or the marker check of the collected output fails.
C11_StatusMachine ==
  [][ /\ \A t \in (1..Len(tasks')) \ TaskIds :
           tasks'[t].status \in {PENDING, SKIPPED} /\ frames'[t].pc = "idle"
      /\ \A t \in TaskIds :
           LET old == tasks[t].status
               new == tasks'[t].status
           IN /\ LegalStatusStep(old, new)
              /\ (old = PENDING /\ new = SKIPPED) => frames[t].pc = "idle"
              /\ (old # FAILURE /\ new = FAILURE)
                   <=> \/ ExhaustsRetries(t)
                       \/ ChecksMarkers(t) /\ MarkerCheckFails(t)
              /\ (old # SUCCESS /\ new = SUCCESS)
                   => ChecksMarkers(t) /\ ~MarkerCheckFails(t)
    ]_vars

\* a task that went PENDING, RUNNING, FAILURE: a nonzero exit, a zero exit,
\* then output without the marker, after a timeout
C11_Witness ==
  \E t \in TaskIds :
    /\ tasks[t].status = FAILURE
    /\ frames[t].exits = <<1, 0>>
    /\ tasks[t].process_info # <<>>
    /\ tasks[t].process_info[1].killed
    /\ tasks[t].process_info[1].out_content = << <<>> >>

\* the workers inside task.run()
Busy == {t \in TaskIds : InRun(t)}

\* C12: at every moment of a run the number of tasks whose worker is inside
\* the retry loop (starting, waiting on or backing off from a remote
\* operation) is at most max_workers, however many hosts were submitted.
C12_BoundedConcurrency ==
  Orchestrated =>
    /\ Cardinality(Busy) <= cfg.max_workers
    /\ \A t \in Busy : tasks[t].status = RUNNING

\* two hosts submitted to a pool of one worker: one is inside its retry
\* loop while the other waits to be taken up
C12_Witness ==
  /\ Orchestrated /\ cfg.max_workers = 1 /\ Len(tasks) = 2
  /\ \E t, u \in TaskIds :
       /\ InRun(t) /\ tasks[t].status = RUNNING
       /\ frames[u].pc = "idle" /\ tasks[u].status = PENDING

\* the call of a validation method has returned or raised
Called(method) == main.pc = "called" /\ main.method = method

\* C13: the aggregate error of _parse_and_validate_entries holds one error
\* for each entry whose instance name is invalid and one for each entry whose
\* rules are invalid (both for an entry with both defects), whatever the
\* entries before it, and one duplicate error when an instance name recurs;
\* it holds nothing else, and validation passes only without any of these.
C13_ExhaustiveValidation ==
  Called("_parse_and_validate_entries") =>
    LET es == main.arg
        errs == IF main.result.ok THEN <<>> ELSE main.result.error
        name(k) == ParseAndValidateInstanceFullName(es[k][1])
        rules(k) == ParseAndValidateAgentRules(es[k][1], es[k][2])
        bad_names == {k \in 1..Len(es) : ~name(k).ok}
        bad_rules == {k \in 1..Len(es) : ~rules(k).ok}
        recurs == \E j, k \in 1..Len(es) : j # k /\ es[j][1] = es[k][1]
    IN /\ \A k \in bad_names :
            Count(errs, name(k).error)
              = Cardinality({j \in bad_names : name(j).error = name(k).error})
       /\ \A k \in bad_rules :
            Count(errs, rules(k).error)
              = Cardinality({j \in bad_rules : rules(j).error = rules(k).error})
       /\ Cardinality({n \in 1..Len(errs) : errs[n][1] = "InstanceEntriesDuplicateError"})
            = (IF recurs THEN 1 ELSE 0)
       /\ Len(errs) = Cardinality(bad_names) + Cardinality(bad_rules)
                        + (IF recurs THEN 1 ELSE 0)
       /\ main.result.ok <=> errs = <<>>

\* the first entry has both defects, a later entry has invalid rules and
\* repeats the instance of the entry before it: four errors
C13_Witness ==
  /\ Called("_parse_and_validate_entries")
  /\ main.arg = << <<BadHost, RNoType>>, <<HostA, RLogging>>, <<HostA, RNotJson>> >>
  /\ ~main.result.ok
  /\ Len(main.result.error) = 4

\* a decoded rule list with the ops-agent rule and at least one other rule
OpsAgentAndOther(rules) ==
  /\ Len(rules) >= 2
  /\ \A k \in 1..Len(rules) : HasType(rules[k])
  /\ \E k \in 1..Len(rules) : rules[k].type = OPS_AGENT

Contains(seq, x) == \E n \in 1..Len(seq) : seq[n] = x

\* C14: type validation of every rule list that holds the ops-agent rule
\* and at least one other rule reports the conflict, wherever the ops-agent
\* rule stands, and rules validation of such a list fails with that error;
\* the list of the single ops-agent rule passes type validation.
C14_OpsAgentConflict ==
  /\ Called("_validate_agent_types") =>
       /\ OpsAgentAndOther(main.arg) => Contains(main.result, <<"OpsAgentConflict">>)
       /\ main.arg = << [type |-> OPS_AGENT] >> => main.result = <<>>
  /\ Called("_parse_and_validate_agent_rules") =>
       /\ (main.arg.decodes /\ OpsAgentAndOther(main.arg.value)) =>
            /\ ~main.result.ok
            /\ main.result.error[1] = "AgentRuleInvalidError"
            /\ Contains(main.result.error[3], <<"OpsAgentConflict">>)
       /\ main.arg = ROps => main.result = [ok |-> TRUE, value |-> ROps.value]

\* the ops-agent rule last, after two other rules: the only error is the
\* conflict
C14_Witness ==
  /\ Called("_validate_agent_types")
  /\ main.arg = << [type |-> LOGGING], [type |-> METRICS], [type |-> OPS_AGENT] >>
  /\ main.result = << <<"OpsAgentConflict">> >>

\* C15: when an instance name occurs in two or more entries, wherever they
\* stand, validation fails with one duplicate error that names each such
\* instance exactly once and no other; when the instance names are pairwise
\* distinct there is no duplicate error.
C15_DuplicateHosts ==
  Called("_parse_and_validate_entries") =>
    LET es == main.arg
        repeated == {es[k][1] : k \in {k \in 1..Len(es) :
                        \E j \in 1..Len(es) : j # k /\ es[j][1] = es[k][1]}}
        errs == IF main.result.ok THEN <<>> ELSE main.result.error
        dup_errs == SelectSeq(errs, LAMBDA e : e[1] = "InstanceEntriesDuplicateError")
    IN IF repeated = {} THEN dup_errs = <<>>
       ELSE /\ ~main.result.ok
            /\ Len(dup_errs) = 1
            /\ \A h \in repeated : Count(dup_errs[1][2], h) = 1
            /\ Len(dup_errs[1][2]) = Cardinality(repeated)

\* two instances, each in two entries that are not adjacent: the only error
\* names each instance once
C15_Witness ==
  /\ Called("_parse_and_validate_entries")
  /\ main.arg = << <<HostB, RBoth>>, <<HostA, RLogging>>,
                   <<HostB, RBoth>>, <<HostA, RLogging>> >>
  /\ ~main.result.ok
  /\ main.result.error = << <<"InstanceEntriesDuplicateError", <<HostA, HostB>> >> >>

\* the agent types the tool enumerates
EnumeratedTypes == {"logging", "metrics", "ops-agent"}

\* C16: type validation of a decoded rule list returns one error naming
\* each type outside {logging, metrics, ops-agent} and one error for each
\* type that occurs more than once; it returns no error exactly when every
\* type is enumerated, the types are pairwise distinct and ops-agent is not
\* combined with another rule.
C16_AgentTypeLegality ==
  Called("_validate_agent_types") =>
    LET rules == main.arg
        present == {rules[k].type : k \in 1..Len(rules)}
        times(t) == Cardinality({k \in 1..Len(rules) : rules[k].type = t})
    IN /\ \A t \in present \ EnumeratedTypes :
            Count(main.result, <<"InvalidAgentType", t>>) = 1
       /\ \A t \in present :
            times(t) > 1 => Count(main.result, <<"AtMostOne", t>>) = 1
       /\ main.result = <<>>
            <=> /\ present \subseteq EnumeratedTypes
                /\ \A t \in present : times(t) = 1
                /\ ~("ops-agent" \in present /\ Len(rules) > 1)

\* an unknown type and a known type given twice: one error for each
C16_Witness ==
  /\ Called("_validate_agent_types")
  /\ main.arg = << [type |-> LOGGING], [type |-> "invalid-type"], [type |-> LOGGING] >>
  /\ main.result = << <<"InvalidAgentType", "invalid-type">>, <<"AtMostOne", LOGGING>> >>

\* the version forms: "latest", digits.digits.digits, digits.*.*
VersionForm(v) ==
  LET parts == SplitOn(v, ".")
  IN \/ v = <<"l", "a", "t", "e", "s", "t">>
     \/ Len(parts) = 3 /\ \A k \in 1..3 : IsDigits(parts[k])
     \/ Len(parts) = 3 /\ IsDigits(parts[1])
          /\ parts[2] = <<"*">> /\ parts[3] = <<"*">>

\* C17: version validation returns no error exactly for "latest", for
\* digits.digits.digits and for digits.*.*, and an error for every other
\* string (violated by the code: a pinned version followed by a newline
\* passes).
C17_VersionGrammar ==
  Called("_validate_agent_version") =>
    /\ VersionForm(main.arg) => main.result = <<>>
    /\ ~VersionForm(main.arg) => main.result = << <<"VersionNotAllowed", main.arg>> >>

\* C18: the canonical string of the InstanceInfo that validation returns
\* for an accepted string is that string, and no other accepted string
\* gives the same InstanceInfo (violated by the code: a full name followed
\* by a newline is accepted as the full name without it).
C18_HostRoundTrip ==
  (Called("_parse_and_validate_instance_full_name") /\ main.result.ok) =>
    /\ InstanceStr(main.result.value) = main.arg
    /\ \A s \in HostStrings :
         LET r == ParseAndValidateInstanceFullName(s)
         IN (r.ok /\ r.value = main.result.value) => s = main.arg

\* a non-empty name of letters, digits and hyphens
RestrictedName(g) ==
  g # <<>> /\ \A k \in 1..Len(g) : g[k] \in Letters \cup Digits \cup {"-"}

\* projects/<name>/zones/<name>/instances/<name> with three restricted names
RestrictedFullName(s) ==
  LET parts == SplitOn(s, "/")
  IN /\ Len(parts) = 6
     /\ parts[1] = Projects /\ parts[3] = Zones /\ parts[5] = Instances
     /\ RestrictedName(parts[2]) /\ RestrictedName(parts[4])
     /\ RestrictedName(parts[6])

\* C19: every InstanceInfo that validation returns has three non-empty
\* components of letters, digits and hyphens, and a string with an empty
\* component or with another character in a component is rejected with
\* InstanceFullNameInvalidError (violated by the code: the underscore is
\* accepted).
C19_HostIdentity ==
  Called("_parse_and_validate_instance_full_name") =>
    /\ main.result.ok =>
         /\ RestrictedName(main.result.value.project)
         /\ RestrictedName(main.result.value.zone)
         /\ RestrictedName(main.result.value.instance)
    /\ ~RestrictedFullName(main.arg) =>
         /\ ~main.result.ok
         /\ main.result.error = <<"InstanceFullNameInvalidError", main.arg>>

\* C20: validation of a rules string fails with AgentRuleInvalidError when
\* the string is not JSON, when the decoded list is empty, or when a decoded
\* rule has no "type"; extraction fails in the same three cases with
\* AgentRuleParseError, and otherwise returns the decoded rules unchanged, in
\* the order of the input.
C20_RuleSetDecoding ==
  LET rules == main.arg.value
      undecodable == ~main.arg.decodes
      empty == main.arg.decodes /\ Len(rules) = 0
      untyped == main.arg.decodes /\ \E k \in 1..Len(rules) : "type" \notin DOMAIN rules[k]
  IN /\ Called("_extract_agent_rules") =>
          IF undecodable \/ empty \/ untyped
          THEN ~main.result.ok /\ main.result.error[1] = "AgentRuleParseError"
          ELSE /\ main.result.ok
               /\ Len(main.result.value) = Len(rules)
               /\ \A k \in 1..Len(rules) : main.result.value[k] = rules[k]
     /\ Called("_parse_and_validate_agent_rules") =>
          /\ (undecodable \/ empty \/ untyped) =>
               /\ ~main.result.ok
               /\ main.result.error[1] = "AgentRuleInvalidError"
               /\ main.result.error[2][1] = "AgentRuleParseError"
          /\ main.result.ok =>
               /\ Len(main.result.value) = Len(rules)
               /\ \A k \in 1..Len(rules) : main.result.value[k] = rules[k]

\* two rules, one with a version, come back as given
C20_Witness ==
  /\ Called("_parse_and_validate_agent_rules")
  /\ main.arg.value
       = << [type |-> METRICS, version |-> <<"1", ".", "*", ".", "*">>],
            [type |-> LOGGING] >>
  /\ main.result.ok
  /\ main.result.value = main.arg.value

\* run() is past _read_entries_from_file
EntriesRead ==
  /\ Orchestrated
  /\ main.pc \notin {"read_state", "read_entries"}
  /\ main.exc \notin {"JSONDecodeError"}

\* the records of the file that are not blank lines
Records == SelectSeq(vms_file, LAMBDA r : Len(r) # 0)

\* C21: when every record has two fields, the entries are the (host, rules)
\* pairs of the records, one for each, in the order of the file, blank lines
\* left out; when some record has another number of fields, the read raises
\* an error that carries that record, no entry is returned, and the run
\* validates nothing, creates no task and writes no state.
C21_EntryParsing ==
  EntriesRead =>
    IF \A k \in 1..Len(Records) : Len(Records[k]) = 2
    THEN /\ main.exc # "Exception"
         /\ Len(entries) = Len(Records)
         /\ \A k \in 1..Len(Records) :
              entries[k] = <<Strip(Records[k][1]), Records[k][2]>>
    ELSE /\ main.pc = "crashed" /\ main.exc = "Exception"
         /\ main.error[1] = "Incorrect entry"
         /\ Len(main.error[2]) # 2
         /\ \E k \in 1..Len(Records) :
              /\ Records[k] = main.error[2]
              /\ \A j \in 1..(k - 1) : Len(Records[j]) = 2
         /\ entries = <<>> /\ ~main.validated /\ main.parsed = <<>>
         /\ tasks = <<>> /\ Writes = 0

\* a valid record, then a record of one field: the parse fails as a whole
C21_Witness ==
  /\ EntriesRead
  /\ vms_file = << <<HostA, RLogging>>, <<HostA>> >>
  /\ main.pc = "crashed"
  /\ main.error = <<"Incorrect entry", <<HostA>> >>
  /\ entries = <<>>

\* C22: whenever --dry-run is given, whatever --provider is, the Provisioner
\* holds the mock provider, which is what it hands to its tasks (violated by
\* the code: --provider paramiko wins over --dry-run).
C22_DryRunForcesMock ==
  (main.pc = "constructed" /\ cfg.dry_run) => cfg.provider_instance = "_MockProvider"

\* C23: every attempt of a task dispatched by the Provisioner obtains a
\* process from the injected provider, and no provider makes run() raise;
\* with the mock provider (exit code 0) a dispatched task with a retry
\* budget ends SUCCESS or FAILURE by the marker check (violated by the code:
\* start_process is called with two arguments and raises TypeError).
C23_ExecutorInterface ==
  Orchestrated =>
    \A t \in TaskIds :
      (tasks[t].status # SKIPPED /\ tasks[t].max_retries >= 1 /\ Finished(t)) =>
        /\ frames[t].exc # "TypeError"
        /\ frames[t].starts >= 1
        /\ tasks[t].provider = "_MockProvider" =>
             /\ frames[t].pc = "returned"
             /\ frames[t].exits = <<0>>
             /\ t \in Processed => tasks[t].status \in {SUCCESS, FAILURE}

\* wait_for_completion has been called on task t and has returned
Waited(t) == (DirectCall /\ main.pc = "caller_done") \/ (Orchestrated /\ t \in Processed)

C25_FailureReporting ==
  (Orchestrated /\ main.summary) =>
    /\ \A t \in TaskIds :
         tasks[t].status = FAILURE =>
           \E n \in 1..Len(main.report) :
             /\ main.report[n][1] = tasks[t].instance_info
             /\ main.report[n][2] = "fails to run"
             /\ main.report[n][4] = LogFile(tasks[t].instance_info)
    /\ main.failure = Cardinality({t \in TaskIds : tasks[t].status = FAILURE})

\* C26: a run that stops with an exception after validation leaves the
\* state file exactly as it found it; run again without --force on the same
\* input, the tool finds that file, skips exactly the hosts it recorded
\* SUCCESS before the first run and hands every other host to the pool.
C26_CrashBeforeFlush ==
  Orchestrated =>
    /\ (main.validated /\ main.pc \in {"unwinding", "crashed"}) =>
         state_file = <<PriorFile>>
    /\ main.run = 2 =>
         /\ ~cfg.force /\ state_file = <<PriorFile>>
         /\ \A t \in TaskIds :
              /\ tasks[t].status = SKIPPED <=> PriorSuccess(HostKey(t))
              /\ (PoolShutDown /\ ~PriorSuccess(HostKey(t))) =>
                   (frames[t].pc # "idle" /\ tasks[t].status # PENDING)
         /\ main.pc = "collect" => Len(tasks) = Len(main.parsed)

\* the second run after a first run that stopped in the pool: the host
\* recorded SUCCESS is skipped again, the host recorded FAILURE is run again
C26_Witness ==
  /\ Orchestrated /\ main.run = 2 /\ main.pc = "crashed"
  /\ \E t, u \in TaskIds :
       /\ PriorSuccess(HostKey(t)) /\ tasks[t].status = SKIPPED
       /\ HostKey(u) \in DOMAIN PriorFile.value
       /\ PriorFile.value[HostKey(u)].status = FAILURE
       /\ tasks[u].status = RUNNING /\ Finished(u)

\* the counters of _write_process_output_and_print_status
Counters(m) == <<m.success, m.failure, m.skipped, m.completed>>

\* C27: the counters and the state mapping are written by the thread of
\* run() only, never in a step of a worker; each completion adds one to
\* "completed" and one to the counter of the task's status and to no other,
\* so that no increment is lost: when the loop is over, succeeded + failed +
\* skipped = completed = the number of submitted tasks.
C27_ExclusiveAggregates ==
  [][ Orchestrated =>
        /\ (\E t \in TaskIds : frames'[t] # frames[t]) =>
             (Counters(main') = Counters(main) /\ state' = state)
        /\ Counters(main') # Counters(main) =>
             \E t \in TaskIds \ Processed :
               /\ Finished(t)
               /\ main'.completed = main.completed + 1
               /\ IF frames[t].pc = "raised"
                  THEN /\ main'.exc = frames[t].exc
                       /\ <<main'.success, main'.failure, main'.skipped>>
                            = <<main.success, main.failure, main.skipped>>
                  ELSE /\ main'.processed = Append(main.processed, t)
                       /\ main'.success
                            = main.success + (IF tasks'[t].status = SUCCESS THEN 1 ELSE 0)
                       /\ main'.failure
                            = main.failure + (IF tasks'[t].status = FAILURE THEN 1 ELSE 0)
                       /\ main'.skipped
                            = main.skipped + (IF tasks'[t].status = SKIPPED THEN 1 ELSE 0)
        /\ state' # state =>
             \/ main.pc = "read_state"
             \/ Len(main'.processed) = Len(main.processed) + 1
        /\ main'.pc \in {"write_state", "done"} =>
             /\ main'.success + main'.failure + main'.skipped = Len(tasks')
             /\ main'.completed = Len(tasks')
    ]_vars

\* a finished run of two hosts that both failed: both are counted
C27_Witness ==
  /\ Orchestrated /\ main.pc = "done"
  /\ Len(tasks) = 2 /\ main.failure = 2 /\ main.completed = 2

\* C28: a step that writes a field of task t is either a step of the worker
\* that runs t, which moves no other worker and writes no other task, or a
\* step of the calling thread taken after t's run() has returned; the
\* completion of t is processed only after t's run() has returned.
C28_PerTaskOwnership ==
  [][ \A t \in TaskIds :
        /\ tasks'[t] # tasks[t] =>
             \/ /\ frames'[t] # frames[t]
                /\ frames[t].pc \notin {"returned", "raised"}
                /\ \A u \in TaskIds \ {t} :
                     frames'[u] = frames[u] /\ tasks'[u] = tasks[u]
             \/ /\ frames[t].pc = "returned"
                /\ frames' = frames
                /\ \A u \in TaskIds \ {t} : tasks'[u] = tasks[u]
        /\ (\E k \in 1..Len(main'.processed) :
              main'.processed[k] = t /\ k > Len(main.processed)) =>
             frames[t].pc = "returned"
    ]_vars

\* two workers at once: one task was written by the calling thread after
\* its run() returned while the other worker is still inside run()
C28_Witness ==
  /\ Orchestrated /\ Len(tasks) = 2
  /\ \E t, u \in TaskIds :
       /\ t \in Processed /\ tasks[t].status \in {SUCCESS, FAILURE}
       /\ frames[u].pc \notin {"idle", "returned", "raised"}

\* the mapping _read_state gave the run
Loaded == ReadStateResult(cfg.force, PriorFile).value

\* the host's entry is what was loaded: absent, or the same record
AsLoaded(h) ==
  /\ h \in DOMAIN state <=> h \in DOMAIN Loaded
  /\ h \in DOMAIN state => state[h] = Loaded[h]

C30_Ordering ==
  (Orchestrated /\ main.validated) =>
    /\ Len(main.parsed) = Len(entries) /\ Len(tasks) <= Len(main.parsed)
    /\ \A k \in 1..Len(main.parsed) :
         InstanceStr(main.parsed[k][1]) = entries[k][1]
    /\ \A k \in TaskIds :
         /\ tasks[k].instance_info = main.parsed[k][1]
         /\ tasks[k].agent_rules = main.parsed[k][2]
         /\ frames[k].pc # "idle" => \A j \in 1..(k - 1) : frames[j].pc # "idle"
    /\ \A j, k \in 1..Len(main.processed) :
         main.processed[j] = main.processed[k] => j = k
    /\ \A t \in Processed : t \in TaskIds /\ frames[t].pc = "returned"
    /\ main.pc \in {"write_state", "done"} =>
         (Processed = TaskIds /\ main.completed = Len(tasks))

\* two workers: the task submitted second finished first and its completion
\* was processed first
C30_Witness ==
  /\ Orchestrated /\ main.pc = "done"
  /\ main.processed = <<2, 1>>
  /\ tasks[1].instance_info # tasks[2].instance_info

\* C31: the sleeps of one task are 1, 2, 4, ... seconds, one after each
\* nonzero exit, and every sleep is followed by a further start attempt: a
\* task that has left the retry loop slept fewer times than it started.
C31_ExponentialBackoff ==
  \A t \in TaskIds :
    /\ \A k \in 1..Len(frames[t].slept) :
         frames[t].slept[k] = 2 ^ (k - 1) /\ frames[t].exits[k] # 0
    /\ frames[t].pc = "loop" => Len(frames[t].slept) = frames[t].starts
    /\ (Finished(t) /\ frames[t].starts > 0) =>
         Len(frames[t].slept) < frames[t].starts

\* C32: at every point of the collection loop succeeded + failed + skipped
\* is the number of completions processed so far, each counter is the number
\* of processed tasks of that status, every processed task is SUCCESS,
\* FAILURE or SKIPPED, and "completed" is the number processed (one more
\* when the last future re-raised) and never more than the tasks submitted.
C32_TallyInvariant ==
  Orchestrated =>
    /\ main.success + main.failure + main.skipped = Len(main.processed)
    /\ main.success = Cardinality(ProcessedWith(SUCCESS))
    /\ main.failure = Cardinality(ProcessedWith(FAILURE))
    /\ main.skipped = Cardinality(ProcessedWith(SKIPPED))
    /\ \A t \in Processed : tasks[t].status \in {SUCCESS, FAILURE, SKIPPED}
    /\ main.completed <= Len(tasks)
    /\ main.completed \in {Len(main.processed), Len(main.processed) + 1}
    /\ main.completed # Len(main.processed) =>
         (main.exc # "none" /\ main.pc \in {"unwinding", "crashed"})

\* in the middle of the loop: a skipped host and a failed one are counted,
\* the loop has not ended
C32_Witness ==
  /\ Orchestrated /\ main.pc = "collect"
  /\ Len(tasks) = 2 /\ Len(main.processed) = 2
  /\ main.skipped = 1 /\ main.failure = 1 /\ main.completed = 2

\* the hosts of this run's tasks
RunHosts == {HostKey(t) : t \in TaskIds}

\* the file's entry for the host is the one the run loaded
KeptInFile(h) ==
  /\ h \in DOMAIN CurrentFile.value
  /\ CurrentFile.value[h] = Loaded[h]

\* C33: with force off, the state a run flushes holds, unchanged in status
\* and timestamp, the loaded entry of every skipped host and of every
\* loaded host that is not in the input; an entry that is new or differs
\* belongs to a host dispatched in this run; a host loaded as SUCCESS is
\* SUCCESS in the flushed state.
C33_StateFrameNonForce ==
  (Orchestrated /\ ~cfg.force /\ main.pc = "done") =>
    /\ Writes = 1 /\ CurrentFile.kind = "json"
    /\ \A t \in TaskIds : tasks[t].status = SKIPPED => KeptInFile(HostKey(t))
    /\ \A h \in DOMAIN Loaded \ RunHosts : KeptInFile(h)
    /\ \A h \in DOMAIN CurrentFile.value :
         ~(h \in DOMAIN Loaded /\ KeptInFile(h)) =>
           \E t \in TaskIds :
             /\ HostKey(t) = h /\ tasks[t].status \in {SUCCESS, FAILURE}
             /\ CurrentFile.value[h].status = tasks[t].status
    /\ \A h \in DOMAIN Loaded :
         ("status" \in DOMAIN Loaded[h] /\ Loaded[h].status = SUCCESS) =>
           (h \in DOMAIN CurrentFile.value /\ CurrentFile.value[h].status = SUCCESS)

\* a finished run of two hosts: one was loaded as SUCCESS and skipped, the
\* other was loaded as FAILURE, dispatched and rewritten
C33_Witness ==
  /\ Orchestrated /\ ~cfg.force /\ main.pc = "done" /\ Len(tasks) = 2
  /\ \E t, u \in TaskIds :
       /\ tasks[t].status = SKIPPED /\ KeptInFile(HostKey(t))
       /\ HostKey(u) \in DOMAIN Loaded /\ Loaded[HostKey(u)].status = FAILURE
       /\ tasks[u].status = FAILURE /\ ~KeptInFile(HostKey(u))

\* C34: with force on the state file is not read (no entry of it skips a
\* host or stops the run, the mapping starts empty), no task is SKIPPED,
\* and the flushed file holds exactly one entry per host of the run, with
\* that task's status: entries the prior file held for other hosts are
\* gone.
C34_StateAfterForcedRun ==
  (Orchestrated /\ cfg.force) =>
    /\ main.exc \notin {"JSONDecodeError", "KeyError"}
    /\ Loaded = <<>> /\ DOMAIN state \subseteq RunHosts
    /\ \A t \in TaskIds : tasks[t].status # SKIPPED
    /\ main.pc = "done" =>
         /\ Writes = 1 /\ CurrentFile.kind = "json"
         /\ Len(tasks) = Len(main.parsed)
         /\ DOMAIN CurrentFile.value = RunHosts
         /\ \A t \in TaskIds :
              CurrentFile.value[HostKey(t)].status = tasks[t].status
         /\ PriorFile.kind = "json" =>
              \A h \in DOMAIN PriorFile.value \ RunHosts :
                h \notin DOMAIN CurrentFile.value

\* a finished forced run of one host recorded SUCCESS before; the prior
\* file's entry of another host is no longer in the file
C34_Witness ==
  /\ Orchestrated /\ cfg.force /\ main.pc = "done" /\ Len(tasks) = 1
  /\ PriorFile.kind = "json" /\ PriorSuccess(HostKey(1))
  /\ tasks[1].status = FAILURE
  /\ \E h \in DOMAIN PriorFile.value : h # HostKey(1) /\ h \notin DOMAIN CurrentFile.value

\* the state the first of two runs flushed
FirstFlush == state_file[2].value

\* the first run's flushed state records every host of the input as SUCCESS
AllSucceededFirst == \A t \in TaskIds : FirstFlush[HostKey(t)].status = SUCCESS

C35_WitnessFailure ==
  /\ Orchestrated /\ main.run = 2 /\ main.pc = "done"
  /\ \E t \in TaskIds :
       /\ PriorFile.kind = "missing"
       /\ FirstFlush[HostKey(t)].status = FAILURE
       /\ tasks[t].status = FAILURE /\ frames[t].pc = "returned"

\* the command was built for the task's rules
Built == main.pc = "built"

\* the positions of a text at which the piece stands
Positions(text, piece) == {k \in 1..Len(text) : text[k] = piece}

\* C36: the list of commands has n + 2 parts for n rules: the starting echo
\* first, the finishing echo last and nowhere else, and between them, in the
\* order of the rules, one command per rule that fetches and runs that
\* agent's repository script and echoes that agent's success text; the
\* command holds "--version=" followed by the rule's version exactly when
\* the rule has a version; the string sent is the parts joined with ";".
C36_CommandConstruction ==
  Built =>
    LET agent_rules == tasks[1].agent_rules
        commands == main.commands
        n == Len(agent_rules)
    IN /\ Len(commands) = n + 2
       /\ Positions(commands, StartingMarker) = {1}
       /\ Positions(commands, FinishedMarker) = {n + 2}
       /\ \A k \in 1..n :
            LET command == commands[k + 1]
                at == Positions(command, "--version=")
            IN /\ command[2] = AgentDetail(agent_rules[k].type).repo_script
               /\ command[Len(command) - 1] = AgentName(agent_rules[k].type)
               /\ at # {} <=> "version" \in DOMAIN agent_rules[k]
               /\ "version" \in DOMAIN agent_rules[k] =>
                    /\ Cardinality(at) = 1
                    /\ \A j \in at :
                         SubSeq(command, j + 1, j + Len(agent_rules[k].version))
                           = agent_rules[k].version
       /\ Head(main.command_str) = Head(StartingMarker)
       /\ main.command_str[Len(main.command_str)] = Head(FinishedMarker)
       /\ Cardinality(Positions(main.command_str, ";")) = n + 1

\* three rules, the second with a pinned version, the others without
C36_Witness ==
  /\ Built /\ Len(tasks[1].agent_rules) = 3 /\ Len(main.commands) = 5
  /\ "version" \notin DOMAIN tasks[1].agent_rules[1]
  /\ "version" \in DOMAIN tasks[1].agent_rules[2]
  /\ tasks[1].agent_rules[2].version = <<"1", ".", "2", ".", "3">>
  /\ tasks[1].agent_rules[1].type # tasks[1].agent_rules[3].type

====
